---------------------------- MODULE Spec2Model ----------------------------
(***************************************************************************)
(* A model of the two scripts of the repository:                           *)
(*   - data_gen.py: generate_product_data, generate_sales_summary,          *)
(*     save_datasets, main, driven by numpy's global random generator;      *)
(*   - viz.py: create_dashboard (load or fall back, aggregate views,        *)
(*     KPIs, monthly promo summary, treemap shares, the KPI card layout,    *)
(*     write the page).                                                     *)
(* Money is kept in cents, fractions in hundredths, raw uniform draws in    *)
(* thousandths of the unit that round(., 2) then reduces to hundredths.     *)
(* The float arithmetic of the card layout and of the monthly promo share   *)
(* is carried out in binary64, rounding included.                           *)
(***************************************************************************)
EXTENDS Integers, Sequences, FiniteSets, TLC

VARIABLES
    pc,                \* control location of the generator process
    rng,               \* state of numpy's global generator
    script,            \* what the process calls: "main", "products", "sales"
    proc,              \* number of the running process (script run)
    callno,            \* number of the call within the running process
    log,               \* tables returned by every finished call
    files,             \* products.csv / sales_summary.csv as last saved
    num_products,      \* argument of generate_product_data
    product_ids, categories, subcategories, values,
    products_df,       \* table returned by generate_product_data
    year, num_months, num_states,   \* arguments of generate_sales_summary
    selected_states, month, state_ix,
    rows,              \* the nine per-row column lists, kept row-wise
    promo_percent,
    sales_df,          \* table returned by generate_sales_summary
    dpc,               \* control location of create_dashboard
    products_file,     \* data/products.csv: absent, or its table
    sales_file,        \* data/sales_summary.csv: absent, or its table
    df_products, df_sales, df_geo,
    kpi,               \* the scalars of the KPI cards
    monthly_summary,
    treemap,           \* the treemap's nodes with their share of the parent
    x_start,           \* left edge of the next KPI card
    card_width,
    card_i,            \* index i of the positioning loop
    indicators,        \* the go.Indicator traces added so far
    all_annotations,
    written            \* executive_sales_summary.html has been written

genvars == <<pc, rng, script, proc, callno, log, files, num_products, product_ids,
             categories, subcategories, values, products_df, year, num_months,
             num_states, selected_states, month, state_ix, rows, promo_percent,
             sales_df>>

layoutvars == <<x_start, card_width, card_i, indicators, all_annotations>>

dashvars == <<dpc, products_file, sales_file, df_products, df_sales, df_geo, kpi,
              monthly_summary, treemap, layoutvars, written>>

vars == <<genvars, dashvars>>

drv == <<script, proc, callno, log, files>>
gpargs == <<num_products>>
gsargs == <<year, num_months, num_states>>
gpvars == <<num_products, product_ids, categories, subcategories, values, products_df>>
gsvars == <<year, num_months, num_states, selected_states, month, state_ix, rows,
            promo_percent, sales_df>>

----------------------------------------------------------------------------
(* Bounds of the model *)

\* largest num_products tried with free random outcomes
MaxProducts == 2
\* largest num_months * num_states tried with free random outcomes
MaxRows == 2
\* script runs (processes) followed one after the other
MaxProcs == 2
\* calls of the same function within one process
MaxCalls == 2
\* a product count past the three digits of the identifier's padding
BigProducts == 1001
\* largest num_months tried with seeded outcomes
BigMonths == 12
\* most rows of a products.csv given to the dashboard
MaxProductRows == 2
\* most rows of a sales_summary.csv given to the dashboard
MaxSalesRows == 2

----------------------------------------------------------------------------
(* data_gen.py: constants *)

CategoryKeys == <<"Electronics", "Furniture", "Clothing", "Home Appliances", "Sports">>

PRODUCT_CATEGORIES ==
    [c \in {CategoryKeys[i] : i \in 1..Len(CategoryKeys)} |->
       CASE c = "Electronics" -> <<"Smartphones", "Laptops", "Tablets", "Headphones", "Smartwatches">>
         [] c = "Furniture" -> <<"Chairs", "Tables", "Sofas", "Desks", "Cabinets">>
         [] c = "Clothing" -> <<"Shirts", "Pants", "Dresses", "Jackets", "Shoes">>
         [] c = "Home Appliances" -> <<"Refrigerators", "Washing Machines", "Microwaves", "Blenders", "Toasters">>
         [] OTHER -> <<"Bicycles", "Treadmills", "Dumbbells", "Yoga Mats", "Sportswear">>]

STATES_USA ==
    <<"Alabama", "Alaska", "Arizona", "Arkansas", "California", "Colorado", "Connecticut",
      "Delaware", "Florida", "Georgia", "Hawaii", "Idaho", "Illinois", "Indiana", "Iowa",
      "Kansas", "Kentucky", "Louisiana", "Maine", "Maryland", "Massachusetts", "Michigan",
      "Minnesota", "Mississippi", "Missouri", "Montana", "Nebraska", "Nevada", "New Hampshire",
      "New Jersey", "New Mexico", "New York", "North Carolina", "North Dakota", "Ohio", "Oklahoma",
      "Oregon", "Pennsylvania", "Rhode Island", "South Carolina", "South Dakota", "Tennessee",
      "Texas", "Utah", "Vermont", "Virginia", "Washington", "West Virginia", "Wisconsin", "Wyoming">>

SeqToSet(s) == {s[i] : i \in 1..Len(s)}

----------------------------------------------------------------------------
(* Python built-ins used by the generator *)

DigitChars == <<"0", "1", "2", "3", "4", "5", "6", "7", "8", "9">>

\* str(n) for n >= 0: the decimal digits, most significant first
RECURSIVE Str(_)
Str(n) == IF n < 10 THEN <<DigitChars[n + 1]>>
          ELSE Str(n \div 10) \o <<DigitChars[(n % 10) + 1]>>

ZfillKeepWidth(s, w) ==
    LET p == [i \in 1..w |-> "0"] \o s
    IN  SubSeq(p, Len(p) - w + 1, Len(p))

\* s.zfill(w): zeros on the left up to width w, a longer string is kept whole
Zfill(s, w) == IF Len(s) >= w THEN s ELSE [i \in 1..(w - Len(s)) |-> "0"] \o s

\* f'P{str(i + 1).zfill(3)}' for the loop index i of range(num_products)
ProductId(i) == <<"P">> \o Zfill(Str(i + 1), 3)

\* round(x, 2) of a value given in thousandths: the nearest hundredth, a tie to even
Round2(mills) ==
    LET q == mills \div 10
        r == mills % 10
    IN  IF r < 5 THEN q
        ELSE IF r > 5 THEN q + 1
        ELSE IF q % 2 = 0 THEN q ELSE q + 1

\* round(num / den, 2) with num / den in hundredths already: nearest, a tie to even
RoundDiv(num, den) ==
    LET q == num \div den
        r == num % den
    IN  IF 2 * r < den THEN q
        ELSE IF 2 * r > den THEN q + 1
        ELSE IF q % 2 = 0 THEN q ELSE q + 1

----------------------------------------------------------------------------
(* generate_product_data *)

\* the uniform range of a category's value, in dollars
ValueRange(cat) ==
    CASE cat = "Electronics" -> <<100, 2000>>
      [] cat = "Furniture" -> <<50, 1500>>
      [] cat = "Clothing" -> <<10, 200>>
      [] cat = "Home Appliances" -> <<80, 2500>>
      [] OTHER -> <<30, 1200>>

SubcategoryOfFirst(category, s) == PRODUCT_CATEGORIES[CategoryKeys[1]][s]

\* np.random.choice(PRODUCT_CATEGORIES[category]) with outcome index s
ChooseSubcategory(category, s) == PRODUCT_CATEGORIES[category][s]

\* product_ids = [...] (the list comprehension, whole)
GpIds ==
    /\ pc = "gp_ids"
    /\ product_ids' = [i \in 1..num_products |-> ProductId(i - 1)]
    /\ pc' = "gp_cats"
    /\ UNCHANGED <<rng, drv, dashvars, gpargs, categories, subcategories, values, products_df, gsvars>>

\* one iteration of `for _ in range(num_products)`: outcomes c (category), s (sub-category)
GpCatStep(c, s) ==
    /\ pc = "gp_cats"
    /\ Len(categories) < num_products
    /\ LET category == CategoryKeys[c]
       IN  /\ categories' = Append(categories, category)
           /\ subcategories' = Append(subcategories, ChooseSubcategory(category, s))
    /\ pc' = "gp_cats"
    /\ UNCHANGED <<drv, dashvars, gpargs, product_ids, values, products_df, gsvars>>

GpCatsDone ==
    /\ pc = "gp_cats"
    /\ Len(categories) = num_products
    /\ pc' = "gp_vals"
    /\ UNCHANGED <<rng, drv, dashvars, gpargs, product_ids, categories, subcategories, values, products_df, gsvars>>

\* one iteration of `for cat in categories`: u is the uniform draw in thousandths of a dollar
GpValStep(u) ==
    /\ pc = "gp_vals"
    /\ Len(values) < Len(categories)
    /\ LET cat == categories[Len(values) + 1]
       IN  /\ u >= ValueRange(cat)[1] * 1000
           /\ u < ValueRange(cat)[2] * 1000
           /\ values' = Append(values, Round2(u))
    /\ pc' = "gp_vals"
    /\ UNCHANGED <<drv, dashvars, gpargs, product_ids, categories, subcategories, products_df, gsvars>>

\* df = pd.DataFrame({...}); return df
ProductFrame ==
    [i \in 1..Len(product_ids) |->
       [product_id |-> product_ids[i], category |-> categories[i],
        sub_category |-> subcategories[i], value |-> values[i]]]

\* the return of generate_product_data
GpReturn ==
    /\ pc = "gp_vals"
    /\ Len(values) = Len(categories)
    /\ products_df' = ProductFrame
    /\ pc' = "gp_ret"
    /\ UNCHANGED <<rng, drv, dashvars, gpargs, product_ids, categories, subcategories, values, gsvars>>

----------------------------------------------------------------------------
(* generate_sales_summary *)

\* a * b / d rounded down, computed without leaving 32 bits
MulDivFloor(a, b, d) == (a \div d) * b + ((a % d) * b) \div d

\* 1 + 0.2 * sin((month - 1) * pi / 6), in thousandths
Seasonality(m) ==
    <<1000, 1100, 1173, 1200, 1173, 1100, 1000, 900, 827, 800, 827, 900>>[((m - 1) % 12) + 1]

\* np.random.choice(STATES_USA, size=k, replace=False): k distinct states, the
\* outcome given by a starting position and a stride coprime to the list length
Strides == <<1, 3, 7, 9, 11, 13, 17, 19>>
SampleStates(k, off, st) ==
    [i \in 1..k |-> STATES_USA[((off + (i - 1) * Strides[st]) % Len(STATES_USA)) + 1]]

SalesOfMarkup(total_cost, profit_margin) ==
    total_cost + MulDivFloor(total_cost, profit_margin, 100)

\* sales = round(total_cost / (1 - profit_margin), 2); cents and hundredths
SalesOf(total_cost, profit_margin) == RoundDiv(total_cost * 100, 100 - profit_margin)

\* the metrics of one (month, state) pair from its six uniform draws: base (dollars),
\* cf, df, uf (thousandths), oa (thousandths of a dollar), pm (thousandths)
RowOf(m, y, state, d) ==
    LET total_cost == Round2(MulDivFloor(d.base * d.cf, Seasonality(m), 1000))
        total_discount == Round2(MulDivFloor(total_cost, d.df, 100))
        order_avg == Round2(d.oa)
        units == (d.base * d.uf) \div (10 * order_avg)
        profit_margin == Round2(d.pm)
    IN  [month |-> m, year |-> y, total_cost |-> total_cost,
         total_discount |-> total_discount, order_avg |-> order_avg,
         units_sales |-> units, profit_margin |-> profit_margin,
         total_sales |-> SalesOf(total_cost, profit_margin), state_usa |-> state]

NonPromoOneDecimal(p) == ((100 - p) \div 10) * 10

\* round(1 - p, 2) for p in hundredths
NonPromo(p) == Round2(1000 - p * 10)

\* selected_states = np.random.choice(...); a sample larger than the list raises ValueError
GsChoice(off, st) ==
    /\ pc = "gs_choice"
    /\ IF num_states > Len(STATES_USA)
       THEN /\ pc' = "error"
            /\ UNCHANGED <<selected_states, month, state_ix>>
       ELSE /\ selected_states' = SampleStates(num_states, off, st)
            /\ month' = 1
            /\ state_ix' = 1
            /\ pc' = "gs_rows"
    /\ UNCHANGED <<drv, dashvars, gpvars, gsargs, rows, promo_percent, sales_df>>

\* one iteration of the inner loop `for state in selected_states[:num_states]`
GsRowStep(d) ==
    /\ pc = "gs_rows"
    /\ month <= num_months
    /\ state_ix <= Len(selected_states)
    /\ rows' = Append(rows, RowOf(month, year, selected_states[state_ix], d))
    /\ IF state_ix < Len(selected_states)
       THEN state_ix' = state_ix + 1 /\ month' = month
       ELSE state_ix' = 1 /\ month' = month + 1
    /\ pc' = "gs_rows"
    /\ UNCHANGED <<drv, dashvars, gpvars, gsargs, selected_states, promo_percent, sales_df>>

\* both loops are over (also at once, when there is no state to iterate)
GsRowsDone ==
    /\ pc = "gs_rows"
    /\ (month > num_months \/ Len(selected_states) = 0)
    /\ pc' = "gs_promo"
    /\ UNCHANGED <<rng, drv, dashvars, gpvars, gsargs, selected_states, month, state_ix, rows, promo_percent, sales_df>>

\* one element of promo_percent = [round(np.random.uniform(0.2, 0.6), 2) for ...]
GsPromoStep(u) ==
    /\ pc = "gs_promo"
    /\ Len(promo_percent) < Len(rows)
    /\ promo_percent' = Append(promo_percent, Round2(u))
    /\ pc' = "gs_promo"
    /\ UNCHANGED <<drv, dashvars, gpvars, gsargs, selected_states, month, state_ix, rows, sales_df>>

\* df = pd.DataFrame({...})
SalesFrame ==
    [i \in 1..Len(rows) |->
       [month |-> rows[i].month, year |-> rows[i].year,
        total_cost |-> rows[i].total_cost, total_discount |-> rows[i].total_discount,
        order_avg |-> rows[i].order_avg, units_sales |-> rows[i].units_sales,
        profit_margin |-> rows[i].profit_margin, total_sales |-> rows[i].total_sales,
        state_usa |-> rows[i].state_usa, percentage_promo |-> promo_percent[i],
        percentage_non_promo |-> NonPromo(promo_percent[i])]]

\* df.head(100) if len(df) >= 100 else df
Head100(df) == IF Len(df) >= 100 THEN SubSeq(df, 1, 100) ELSE df

\* the return of generate_sales_summary
GsReturn ==
    /\ pc = "gs_promo"
    /\ Len(promo_percent) = Len(rows)
    /\ sales_df' = Head100(SalesFrame)
    /\ pc' = "gs_ret"
    /\ UNCHANGED <<rng, drv, dashvars, gpvars, gsargs, selected_states, month, state_ix, rows, promo_percent>>

----------------------------------------------------------------------------
(* numpy's global generator: a state that every draw reads and advances *)

RngModulus == 8192
RngMultiplier == 4093
RngIncrement == 1013

\* np.random.seed(42)
SeedValue == 42

\* the generator state of a process that has not seeded it: whatever the system gave
EntropyStates == {7, 4242}

Lcg(r) == (RngMultiplier * r + RngIncrement) % RngModulus

RECURSIVE LcgN(_, _)
LcgN(r, k) == IF k = 0 THEN r ELSE LcgN(Lcg(r), k - 1)

\* np.random.uniform(lo, hi) read off generator state r: a value in [lo, hi)
UniformRng(lo, hi, r) == lo + MulDivFloor(hi - lo, r, RngModulus)

\* the index np.random.choice picks in a list of n, read off generator state r
ChoiceRng(n, r) == 1 + (n * r) \div RngModulus

\* the six uniform draws of one row, in the order the loop body makes them
RowDrawsRng(r) ==
    [base |-> UniformRng(50000, 200000, LcgN(r, 1)),
     cf |-> UniformRng(500, 800, LcgN(r, 2)),
     df |-> UniformRng(10, 150, LcgN(r, 3)),
     oa |-> UniformRng(50000, 300000, LcgN(r, 4)),
     uf |-> UniformRng(500, 2000, LcgN(r, 5)),
     pm |-> UniformRng(100, 400, LcgN(r, 6))]

----------------------------------------------------------------------------
(* outcomes of the random draws, when they are left free *)

ValueDraws(cat) ==
    {ValueRange(cat)[1] * 1000 + 125, ValueRange(cat)[2] * 1000 - 1}

RowDraws ==
    {[base |-> b, cf |-> c, df |-> IF c = 500 THEN 10 ELSE 149,
      oa |-> IF b = 50000 THEN 50000 ELSE 299999,
      uf |-> IF c = 500 THEN 1999 ELSE 500, pm |-> p] :
       b \in {50000, 199999}, c \in {500, 799}, p \in {100, 255, 399}}

PromoDraws == {200, 355, 599}

----------------------------------------------------------------------------
(* the process: import, calls, main, exit *)

NoFiles == [products |-> <<>>, sales |-> <<>>, saved |-> FALSE]

\* module import: np.random.seed(42)
SeedUnseeded(r) == r
Seed(r) == SeedValue % RngModulus

Import ==
    /\ pc = "import"
    /\ rng' = Seed(rng)
    /\ pc' = "idle"
    /\ UNCHANGED <<drv, dashvars, gpvars, gsvars>>

\* a call of the script's function: main() -> generate_product_data(150), or
\* generate_product_data(num_products), or generate_sales_summary(year, num_months, num_states)
Call(limit) ==
    /\ pc = "idle"
    /\ callno < limit
    /\ callno' = callno + 1
    /\ num_products' = IF script = "main" THEN 150 ELSE num_products
    /\ product_ids' = <<>>
    /\ categories' = <<>>
    /\ subcategories' = <<>>
    /\ values' = <<>>
    /\ products_df' = <<>>
    /\ selected_states' = <<>>
    /\ month' = 1
    /\ state_ix' = 1
    /\ rows' = <<>>
    /\ promo_percent' = <<>>
    /\ sales_df' = <<>>
    /\ pc' = IF script = "sales" THEN "gs_choice" ELSE "gp_ids"
    /\ UNCHANGED <<rng, script, proc, log, files, gsargs, dashvars>>

\* main(): sales_df = generate_sales_summary(year=2023), after the products
MainSales ==
    /\ pc = "gp_ret"
    /\ script = "main"
    /\ year' = 2023
    /\ num_months' = 12
    /\ num_states' = 20
    /\ pc' = "gs_choice"
    /\ UNCHANGED <<rng, drv, dashvars, gpvars, selected_states, month, state_ix, rows,
                   promo_percent, sales_df>>

\* save_datasets(products_df, sales_df): both files are overwritten
MainSave ==
    /\ pc = "gs_ret"
    /\ script = "main"
    /\ files' = [products |-> products_df, sales |-> sales_df, saved |-> TRUE]
    /\ pc' = "saved"
    /\ UNCHANGED <<rng, script, proc, callno, log, gpvars, gsvars, dashvars>>

\* the call is over: its tables are what the caller holds
Finish ==
    /\ \/ pc = "saved"
       \/ pc = "gp_ret" /\ script = "products"
       \/ pc = "gs_ret" /\ script = "sales"
    /\ log' = Append(log, [proc |-> proc, call |-> callno,
                           products |-> products_df, sales |-> sales_df])
    /\ pc' = "idle"
    /\ UNCHANGED <<rng, script, proc, callno, files, gpvars, gsvars, dashvars>>

\* the process ends and the script is run again: a new process, a new generator
Exit(e) ==
    /\ pc = "idle"
    /\ callno >= 1
    /\ proc < MaxProcs
    /\ proc' = proc + 1
    /\ callno' = 0
    /\ rng' = e
    /\ pc' = "import"
    /\ UNCHANGED <<script, log, files, gpvars, gsvars, dashvars>>

----------------------------------------------------------------------------
(* the steps with free outcomes *)

CallOnce == Call(1)

GpCatFree == \E c \in 1..Len(CategoryKeys), s \in 1..5 : GpCatStep(c, s) /\ UNCHANGED rng

GpValFree ==
    /\ pc = "gp_vals"
    /\ Len(values) < Len(categories)
    /\ \E u \in ValueDraws(categories[Len(values) + 1]) : GpValStep(u) /\ UNCHANGED rng

GsChoiceFree == \E off \in {0, 49}, st \in {3} : GsChoice(off, st) /\ UNCHANGED rng

GsRowFree == \E d \in RowDraws : GsRowStep(d) /\ UNCHANGED rng

GsPromoFree == \E u \in PromoDraws : GsPromoStep(u) /\ UNCHANGED rng

----------------------------------------------------------------------------
(* the steps with the outcomes read off the generator state *)

CallAgain == Call(MaxCalls)

GpCatRng ==
    /\ GpCatStep(ChoiceRng(Len(CategoryKeys), LcgN(rng, 1)), ChoiceRng(5, LcgN(rng, 2)))
    /\ rng' = LcgN(rng, 2)

GpValRng ==
    /\ pc = "gp_vals"
    /\ Len(values) < Len(categories)
    /\ LET r == ValueRange(categories[Len(values) + 1])
       IN  GpValStep(UniformRng(r[1] * 1000, r[2] * 1000, Lcg(rng)))
    /\ rng' = Lcg(rng)

GsChoiceRng ==
    /\ GsChoice(ChoiceRng(Len(STATES_USA), LcgN(rng, 1)) - 1, ChoiceRng(Len(Strides), LcgN(rng, 2)))
    /\ rng' = LcgN(rng, 2)

GsRowRng ==
    /\ GsRowStep(RowDrawsRng(rng))
    /\ rng' = LcgN(rng, 6)

GsPromoRng ==
    /\ GsPromoStep(UniformRng(200, 600, Lcg(rng)))
    /\ rng' = Lcg(rng)

ExitAny == \E e \in EntropyStates : Exit(e)

----------------------------------------------------------------------------
(* Python floats: IEEE-754 binary64, round to nearest, ties to even.  A float is a sign,
   a 53-bit significand and the exponent of its last bit; the significand is a natural
   number kept as a sequence of limbs, least significant first.  The values that occur
   here are far from the overflow and the subnormal range, which are not modelled. *)

LimbBits == 14
LimbBase == 2^LimbBits
MantissaBits == 53

RECURSIVE BnTrim(_)
BnTrim(a) ==
    IF a = <<>> THEN <<>>
    ELSE IF a[Len(a)] = 0 THEN BnTrim(SubSeq(a, 1, Len(a) - 1))
    ELSE a

RECURSIVE BnOfInt(_)
BnOfInt(n) == IF n = 0 THEN <<>> ELSE <<n % LimbBase>> \o BnOfInt(n \div LimbBase)

Limb(a, i) == IF i \in 1..Len(a) THEN a[i] ELSE 0

RECURSIVE BnAddC(_, _, _)
BnAddC(a, b, c) ==
    IF a = <<>> /\ b = <<>> THEN (IF c = 0 THEN <<>> ELSE <<c>>)
    ELSE LET t == Limb(a, 1) + Limb(b, 1) + c
         IN  <<t % LimbBase>> \o
             BnAddC(IF a = <<>> THEN <<>> ELSE Tail(a), IF b = <<>> THEN <<>> ELSE Tail(b),
                    t \div LimbBase)

BnAdd(a, b) == BnAddC(a, b, 0)

\* a - b for a >= b
RECURSIVE BnSubC(_, _, _)
BnSubC(a, b, c) ==
    IF a = <<>> THEN <<>>
    ELSE LET t == a[1] - Limb(b, 1) - c
         IN  <<IF t < 0 THEN t + LimbBase ELSE t>> \o
             BnSubC(Tail(a), IF b = <<>> THEN <<>> ELSE Tail(b), IF t < 0 THEN 1 ELSE 0)

BnSub(a, b) == BnTrim(BnSubC(a, b, 0))

\* -1, 0, 1 as a is less than, equal to, greater than b
RECURSIVE BnCmpAt(_, _, _)
BnCmpAt(a, b, i) ==
    IF i = 0 THEN 0
    ELSE IF a[i] < b[i] THEN -1
    ELSE IF a[i] > b[i] THEN 1
    ELSE BnCmpAt(a, b, i - 1)

BnCmp(a, b) ==
    IF Len(a) < Len(b) THEN -1
    ELSE IF Len(a) > Len(b) THEN 1
    ELSE BnCmpAt(a, b, Len(a))

\* a * k + c for a limb-sized k
RECURSIVE BnMulLimb(_, _, _)
BnMulLimb(a, k, c) ==
    IF a = <<>> THEN (IF c = 0 THEN <<>> ELSE <<c>>)
    ELSE LET t == a[1] * k + c
         IN  <<t % LimbBase>> \o BnMulLimb(Tail(a), k, t \div LimbBase)

RECURSIVE BnMul(_, _)
BnMul(a, b) ==
    IF a = <<>> \/ b = <<>> THEN <<>>
    ELSE BnTrim(BnAdd(BnMulLimb(b, a[1], 0), <<0>> \o BnMul(Tail(a), b)))

RECURSIVE BitLenInt(_)
BitLenInt(n) == IF n = 0 THEN 0 ELSE 1 + BitLenInt(n \div 2)

BnBitLen(a) == IF a = <<>> THEN 0 ELSE (Len(a) - 1) * LimbBits + BitLenInt(a[Len(a)])

\* a * 2^k
BnShl(a, k) ==
    IF a = <<>> THEN <<>>
    ELSE [i \in 1..(k \div LimbBits) |-> 0] \o BnTrim(BnMulLimb(a, 2^(k % LimbBits), 0))

\* a \div 2^k
BnShr(a, k) ==
    LET w == k \div LimbBits
        s == k % LimbBits
        h == IF w >= Len(a) THEN <<>> ELSE SubSeq(a, w + 1, Len(a))
    IN  BnTrim([i \in 1..Len(h) |->
                  (h[i] \div 2^s) + (Limb(h, i + 1) % 2^s) * 2^(LimbBits - s)])

\* the largest q with d * q <= r, for r < d * LimbBase, from the estimate qhat >= q
RECURSIVE BnDigit(_, _, _)
BnDigit(r, d, qhat) ==
    IF BnCmp(BnTrim(BnMulLimb(d, qhat, 0)), r) > 0 THEN BnDigit(r, d, qhat - 1) ELSE qhat

\* long division of the limbs n[1..i] brought down onto the remainder r: <<quotient, remainder>>
RECURSIVE BnDivStep(_, _, _, _)
BnDivStep(n, d, i, r) ==
    IF i = 0 THEN <<(<<>>), r>>
    ELSE LET cur == BnTrim(<<n[i]>> \o r)
             top == Limb(cur, Len(d) + 1) * LimbBase + Limb(cur, Len(d))
             est == top \div d[Len(d)]
             q == BnDigit(cur, d, IF est > LimbBase - 1 THEN LimbBase - 1 ELSE est)
             rest == BnDivStep(n, d, i - 1, BnSub(cur, BnTrim(BnMulLimb(d, q, 0))))
         IN  <<rest[1] \o <<q>>, rest[2]>>

\* <<n \div d, n % d>> for d # 0
BnDivMod(n, d) ==
    LET qr == BnDivStep(n, d, Len(n), <<>>)
    IN  <<BnTrim(qr[1]), qr[2]>>

DblZero == [s |-> 1, m |-> <<>>, e |-> 0]

\* s * n * 2^e rounded to 53 bits; sticky says that n was itself cut short of the value
DblRound(s, n, e, sticky) ==
    IF n = <<>> THEN DblZero
    ELSE LET l == BnBitLen(n)
         IN  IF l <= MantissaBits
             THEN [s |-> s, m |-> BnShl(n, MantissaBits - l), e |-> e - (MantissaBits - l)]
             ELSE LET d == l - MantissaBits
                      q == BnShr(n, d)
                      c == BnCmp(BnSub(n, BnShl(q, d)), BnShl(<<1>>, d - 1))
                      up == c > 0 \/ (c = 0 /\ (sticky \/ q[1] % 2 = 1))
                      m == IF up THEN BnAdd(q, <<1>>) ELSE q
                  IN  IF BnBitLen(m) > MantissaBits
                      THEN [s |-> s, m |-> BnShr(m, 1), e |-> e + d + 1]
                      ELSE [s |-> s, m |-> m, e |-> e + d]

DblNeg(a) == IF a.m = <<>> THEN a ELSE [a EXCEPT !.s = 0 - a.s]

DblAdd(a, b) ==
    IF a.m = <<>> THEN b
    ELSE IF b.m = <<>> THEN a
    ELSE LET e == IF a.e < b.e THEN a.e ELSE b.e
             ma == BnShl(a.m, a.e - e)
             mb == BnShl(b.m, b.e - e)
             c == BnCmp(ma, mb)
         IN  IF a.s = b.s THEN DblRound(a.s, BnAdd(ma, mb), e, FALSE)
             ELSE IF c = 0 THEN DblZero
             ELSE IF c > 0 THEN DblRound(a.s, BnSub(ma, mb), e, FALSE)
             ELSE DblRound(b.s, BnSub(mb, ma), e, FALSE)

DblSub(a, b) == DblAdd(a, DblNeg(b))

DblMul(a, b) == DblRound(a.s * b.s, BnMul(a.m, b.m), a.e + b.e, FALSE)

\* s * (n / d) * 2^e for naturals n and d # 0, correctly rounded
DblRatio(s, n, d, e) ==
    IF n = <<>> THEN DblZero
    ELSE LET need == BnBitLen(d) + MantissaBits + 2 - BnBitLen(n)
             k == IF need > 0 THEN need ELSE 0
             t == (LimbBits - (BnBitLen(d) % LimbBits)) % LimbBits
             qr == BnDivMod(BnShl(n, k + t), BnShl(d, t))
         IN  DblRound(s, qr[1], e - k, qr[2] # <<>>)

\* a / b for b # 0
DblDiv(a, b) == DblRatio(a.s * b.s, a.m, b.m, a.e - b.e)

\* the float of the decimal literal n / d, and of an int
DblOf(n, d) == DblRatio(1, BnOfInt(n), BnOfInt(d), 0)
DblOfInt(n) ==
    IF n < 0 THEN DblRound(-1, BnOfInt(0 - n), 0, FALSE) ELSE DblRound(1, BnOfInt(n), 0, FALSE)

\* -1, 0, 1 as a is less than, equal to, greater than b
DblCmp(a, b) ==
    IF a.m = <<>> THEN (IF b.m = <<>> THEN 0 ELSE 0 - b.s)
    ELSE IF b.m = <<>> THEN a.s
    ELSE IF a.s # b.s THEN a.s
    ELSE IF a.e # b.e THEN (IF a.e < b.e THEN 0 - a.s ELSE a.s)
    ELSE a.s * BnCmp(a.m, b.m)

DblLe(a, b) == DblCmp(a, b) <= 0
DblLt(a, b) == DblCmp(a, b) < 0

----------------------------------------------------------------------------
(* viz.py: tables, pandas arithmetic *)

\* a table: its column names and its rows (records over at least those columns)
Table(cols, rs) == [present |-> TRUE, cols |-> cols, rows |-> rs]

\* a file that does not exist: pd.read_csv raises FileNotFoundError
Absent == [present |-> FALSE, cols |-> {}, rows |-> <<>>]

\* a float that pandas or numpy computed: a number, nan, or an infinity
Num(v) == [k |-> "num", v |-> v]
NaN == [k |-> "nan", v |-> 0]
Inf(sign) == [k |-> "inf", v |-> sign]

\* a / b as pandas and numpy divide: no exception, x / 0 is an infinity and 0 / 0 is nan;
\* the quotient is kept in units of 1 / scale
PdDiv(a, b, scale) ==
    IF b # 0 THEN Num((a * scale) \div b)
    ELSE IF a > 0 THEN Inf(1)
    ELSE IF a < 0 THEN Inf(-1)
    ELSE NaN

RECURSIVE SumSeq(_)
SumSeq(s) == IF Len(s) = 0 THEN 0 ELSE s[1] + SumSeq(Tail(s))

Col(rs, c) == [i \in 1..Len(rs) |-> rs[i][c]]

\* Series.sum() of a float column: nan is skipped, infinities absorb, opposite ones give nan
PdSum(fs) ==
    LET nums == SelectSeq(fs, LAMBDA f : f.k = "num")
        pos == \E i \in 1..Len(fs) : fs[i] = Inf(1)
        neg == \E i \in 1..Len(fs) : fs[i] = Inf(-1)
    IN  IF pos /\ neg THEN NaN
        ELSE IF pos THEN Inf(1)
        ELSE IF neg THEN Inf(-1)
        ELSE Num(SumSeq(Col(nums, "v")))

\* the truth value Python gives a float: only zero is false
Truthy(f) == ~(f.k = "num" /\ f.v = 0)

RECURSIVE SortedInts(_)
SortedInts(S) ==
    IF S = {} THEN <<>>
    ELSE LET m == CHOOSE x \in S : \A y \in S : x <= y
         IN  <<m>> \o SortedInts(S \ {m})

----------------------------------------------------------------------------
(* create_dashboard: the embedded sample rows *)

SampleProducts ==
    Table({"category", "sub_category", "value"},
          << [category |-> "Electronics", sub_category |-> "Laptops", value |-> 1500],
             [category |-> "Electronics", sub_category |-> "Smartphones", value |-> 1200],
             [category |-> "Furniture", sub_category |-> "Chairs", value |-> 300],
             [category |-> "Furniture", sub_category |-> "Tables", value |-> 500],
             [category |-> "Home Appliances", sub_category |-> "Refrigerators", value |-> 800],
             [category |-> "Home Appliances", sub_category |-> "Microwaves", value |-> 200],
             [category |-> "Sports", sub_category |-> "Bicycles", value |-> 600],
             [category |-> "Clothing", sub_category |-> "Shirts", value |-> 150] >>)

SampleSalesRow(st, ts, oa, tc, td, us, pp, y, m) ==
    [state_usa |-> st, total_sales |-> ts, order_avg |-> oa, total_cost |-> tc,
     total_discount |-> td, units_sales |-> us, percentage_promo |-> pp,
     year |-> y, month |-> m]

SampleSalesColumns ==
    {"state_usa", "total_sales", "order_avg", "total_cost", "total_discount",
     "units_sales", "percentage_promo", "year", "month"}

SampleSalesRows ==
    << SampleSalesRow("California", 125000, 150, 80000, 12000, 800, 10, 2023, 10),
       SampleSalesRow("Texas", 180000, 160, 110000, 15000, 1100, 15, 2023, 11),
       SampleSalesRow("Florida", 150000, 155, 95000, 13000, 950, 12, 2023, 12),
       SampleSalesRow("New York", 140000, 170, 90000, 14000, 850, 20, 2024, 1),
       SampleSalesRow("Pennsylvania", 90000, 145, 60000, 9000, 600, 8, 2024, 2),
       SampleSalesRow("Illinois", 110000, 150, 70000, 11000, 720, 10, 2024, 3),
       SampleSalesRow("Ohio", 85000, 140, 55000, 8000, 600, 11, 2024, 4),
       SampleSalesRow("Georgia", 95000, 148, 65000, 9000, 650, 13, 2024, 5),
       SampleSalesRow("North Carolina", 78000, 130, 50000, 7000, 580, 9, 2024, 6),
       SampleSalesRow("Michigan", 70000, 135, 48000, 6000, 500, 7, 2024, 7) >>

SampleSalesGeoOnly == Table({"state_usa", "total_sales"}, SampleSalesRows)

\* sales_data, with "all required columns"
SampleSales == Table(SampleSalesColumns, SampleSalesRows)

----------------------------------------------------------------------------
(* the files create_dashboard may find: tables with the columns the generator writes *)

ProductColumns == {"product_id", "category", "sub_category", "value"}

SalesColumns ==
    {"month", "year", "total_cost", "total_discount", "order_avg", "units_sales",
     "profit_margin", "total_sales", "state_usa", "percentage_promo", "percentage_non_promo"}

ProductChoices ==
    {<<"Electronics", "Laptops", 100>>, <<"Electronics", "Tablets", 200>>,
     <<"Sports", "Bicycles", 50>>}

ProductTableOf(f) ==
    Table(ProductColumns,
          [i \in 1..Len(f) |-> [product_id |-> ProductId(i - 1), category |-> f[i][1],
                                sub_category |-> f[i][2], value |-> f[i][3]]])

ProductTables ==
    {ProductTableOf(f) : f \in UNION {[1..k -> ProductChoices] : k \in 1..MaxProductRows}}

\* the promotional share, in hundredths, of the rows of state st and month m
FilePromo(st, m) ==
    IF st = "Texas" THEN (IF m = 1 THEN 60 ELSE 100) ELSE (IF m = 1 THEN 20 ELSE 0)

\* a sales row of state st and month m whose total_sales is ts
SalesFileRow(st, m, ts) ==
    [month |-> m, year |-> 2023, total_cost |-> (ts * 3) \div 5, total_discount |-> ts \div 10,
     order_avg |-> 50, units_sales |-> ts \div 50, profit_margin |-> 40, total_sales |-> ts,
     state_usa |-> st, percentage_promo |-> FilePromo(st, m),
     percentage_non_promo |-> 100 - FilePromo(st, m)]

SalesChoices ==
    {SalesFileRow(st, m, ts) : st \in {"California", "Texas"}, m \in {1, 2}, ts \in {0, 100, 250}}
       \cup {SalesFileRow("California", 1, 3)}

SalesTables ==
    {Table(SalesColumns, f) : f \in UNION {[1..k -> SalesChoices] : k \in 1..MaxSalesRows}}

\* a sales file that lacks columns the dashboard reads
MalformedSales ==
    Table({"month", "year", "total_sales", "state_usa"}, <<SalesFileRow("Texas", 1, 100)>>)

\* one file of each kind, to go with every file of the other kind
OneProductTable == ProductTableOf(<< <<"Electronics", "Laptops", 100>> >>)
OneSalesTable == Table(SalesColumns, <<SalesFileRow("Texas", 1, 100)>>)

----------------------------------------------------------------------------
(* create_dashboard *)

NoKpi ==
    [total_order_count |-> NaN, total_revenue |-> 0, total_cost |-> 0, total_profit |-> 0,
     total_discount |-> 0, profit_margin |-> NaN, avg_order_value |-> NaN,
     total_units |-> 0, num_products |-> 0]

\* try: pd.read_csv(products_file) / except FileNotFoundError: the sample rows
LoadProducts ==
    /\ dpc = "load_products"
    /\ df_products' = IF products_file.present THEN products_file ELSE SampleProducts
    /\ dpc' = "load_sales"
    /\ UNCHANGED <<genvars, layoutvars, products_file, sales_file, df_sales, df_geo, kpi,
                   monthly_summary, treemap, written>>

\* try: pd.read_csv(sales_file) / except FileNotFoundError: the sample rows
LoadSales ==
    /\ dpc = "load_sales"
    /\ df_sales' = IF sales_file.present THEN sales_file ELSE SampleSales
    /\ dpc' = "geo"
    /\ UNCHANGED <<genvars, layoutvars, products_file, sales_file, df_products, df_geo, kpi,
                   monthly_summary, treemap, written>>

GroupLast(rs, keycol, key, valcol) ==
    LET g == SelectSeq(rs, LAMBDA r : r[keycol] = key)
    IN  g[Len(g)][valcol]

\* the sum of column valcol over the rows whose keycol is key
GroupSum(rs, keycol, key, valcol) ==
    SumSeq(Col(SelectSeq(rs, LAMBDA r : r[keycol] = key), valcol))

\* df_sales.groupby('state_usa')['total_sales'].sum().reset_index(): one row per state,
\* in the order of the state names (STATES_USA is in that order)
GeoView(rs) ==
    LET keys == SelectSeq(STATES_USA, LAMBDA s : \E i \in 1..Len(rs) : rs[i].state_usa = s)
    IN  [i \in 1..Len(keys) |->
           [state_usa |-> keys[i], total_sales |-> GroupSum(rs, "state_usa", keys[i], "total_sales")]]

GeoColumns == {"state_usa", "total_sales"}

\* df_geo = ...; a column the table lacks raises KeyError
Geo ==
    /\ dpc = "geo"
    /\ IF GeoColumns \subseteq df_sales.cols
       THEN /\ df_geo' = GeoView(df_sales.rows)
            /\ dpc' = "kpi"
       ELSE /\ dpc' = "crash"
            /\ UNCHANGED df_geo
    /\ UNCHANGED <<genvars, layoutvars, products_file, sales_file, df_products, df_sales, kpi,
                   monthly_summary, treemap, written>>

KpiColumns == {"total_sales", "order_avg", "total_cost", "total_discount", "units_sales"}

ProfitMarginUnguarded(total_profit, total_revenue) == PdDiv(total_profit, total_revenue, 1000)

\* total_profit / total_revenue if total_revenue else 0, in thousandths
ProfitMargin(total_profit, total_revenue) ==
    IF total_revenue # 0 THEN PdDiv(total_profit, total_revenue, 1000) ELSE Num(0)

\* total_revenue / total_order_count if total_order_count else 0; the count is in thousandths
AvgOrderValue(total_revenue, total_order_count) ==
    IF Truthy(total_order_count)
    THEN CASE total_order_count.k = "num" -> PdDiv(total_revenue * 1000, total_order_count.v, 1)
           [] total_order_count.k = "inf" -> Num(0)
           [] OTHER -> NaN
    ELSE Num(0)

\* df_sales['order_count_est'] = df_sales['total_sales'] / df_sales['order_avg'], in thousandths
WithOrderCount(rs) ==
    [i \in 1..Len(rs) |->
       [c \in DOMAIN rs[i] \cup {"order_count_est"} |->
          IF c = "order_count_est" THEN PdDiv(rs[i].total_sales, rs[i].order_avg, 1000)
          ELSE rs[i][c]]]

KpisOf(sales_rows, product_rows) ==
    LET total_order_count == PdSum(Col(sales_rows, "order_count_est"))
        total_revenue == SumSeq(Col(sales_rows, "total_sales"))
        total_cost == SumSeq(Col(sales_rows, "total_cost"))
        total_profit == total_revenue - total_cost
    IN  [total_order_count |-> total_order_count,
         total_revenue |-> total_revenue,
         total_cost |-> total_cost,
         total_profit |-> total_profit,
         total_discount |-> SumSeq(Col(sales_rows, "total_discount")),
         profit_margin |-> ProfitMargin(total_profit, total_revenue),
         avg_order_value |-> AvgOrderValue(total_revenue, total_order_count),
         total_units |-> SumSeq(Col(sales_rows, "units_sales")),
         num_products |-> Len(product_rows)]

\* the KPI block: the order-count column is added to df_sales, then the scalars
Kpis ==
    /\ dpc = "kpi"
    /\ IF KpiColumns \subseteq df_sales.cols
       THEN /\ df_sales' = [df_sales EXCEPT !.cols = @ \cup {"order_count_est"},
                                            !.rows = WithOrderCount(@)]
            /\ kpi' = KpisOf(df_sales'.rows, df_products.rows)
            /\ dpc' = "bar"
       ELSE /\ dpc' = "crash"
            /\ UNCHANGED <<df_sales, kpi>>
    /\ UNCHANGED <<genvars, layoutvars, products_file, sales_file, df_products, df_geo,
                   monthly_summary, treemap, written>>

BarColumns == {"total_sales", "percentage_promo", "year", "month"}

\* the float of a percentage_promo cell: the literal with two decimals
PercentFloat == [p \in 0..100 |-> DblOf(p, 100)]

\* the sum of a float column within a group, as pandas' group sum adds it up (Kahan):
\*   y = val - compensation; t = sumx + y; compensation = t - sumx - y; sumx = t
RECURSIVE GroupSumFloat(_, _, _, _)
GroupSumFloat(vals, i, sumx, compensation) ==
    IF i > Len(vals) THEN sumx
    ELSE LET y == DblSub(vals[i], compensation)
             t == DblAdd(sumx, y)
         IN  GroupSumFloat(vals, i + 1, t, DblSub(DblSub(t, sumx), y))

PromoShareUndivided(promo_sales, total_sales) == promo_sales

\* monthly_summary['promo_sales'] / monthly_summary['total_sales']
PromoShare(promo_sales, total_sales) ==
    IF total_sales # 0 THEN DblDiv(promo_sales, DblOfInt(total_sales))
    ELSE IF promo_sales.m = <<>> THEN NaN
    ELSE Inf(promo_sales.s)

\* monthly_summary: one row per (year, month) in that order, with total_sales and
\* promo_sales (the float total_sales * percentage_promo) summed, and promo_percentage
\* the float quotient of the two
MonthlySummary(rs) ==
    LET df_bar == [i \in 1..Len(rs) |->
                     [ym |-> rs[i].year * 12 + rs[i].month - 1,
                      total_sales |-> rs[i].total_sales,
                      promo_sales |-> DblMul(DblOfInt(rs[i].total_sales),
                                             PercentFloat[rs[i].percentage_promo])]]
        keys == SortedInts({df_bar[i].ym : i \in 1..Len(df_bar)})
    IN  [i \in 1..Len(keys) |->
           LET g == SelectSeq(df_bar, LAMBDA r : r.ym = keys[i])
               ts == SumSeq(Col(g, "total_sales"))
               ps == GroupSumFloat(Col(g, "promo_sales"), 1, DblZero, DblZero)
           IN  [year |-> keys[i] \div 12, month |-> (keys[i] % 12) + 1,
                total_sales |-> ts, promo_sales |-> ps,
                promo_percentage |-> PromoShare(ps, ts)]]

Bar ==
    /\ dpc = "bar"
    /\ IF BarColumns \subseteq df_sales.cols
       THEN /\ monthly_summary' = MonthlySummary(df_sales.rows)
            /\ dpc' = "figures"
       ELSE /\ dpc' = "crash"
            /\ UNCHANGED monthly_summary
    /\ UNCHANGED <<genvars, layoutvars, products_file, sales_file, df_products, df_sales, df_geo, kpi,
                   treemap, written>>

TreemapColumns == {"category", "sub_category", "value"}

\* %{percentParent:.1%}: the share in tenths of a percent, rounded to the nearest
ShareTenths(value, of) == (2000 * value + of) \div (2 * of)

ParentOfLeafIsRoot(rs, category) == SumSeq(Col(rs, "value"))

\* the value of a leaf's parent: the category's node, the sum over the category
ParentOfLeaf(rs, category) == GroupSum(rs, "category", category, "value")

\* px.treemap(df_products, path=['category', 'sub_category'], values='value'): one leaf
\* per (category, sub_category) with the values summed, under one node per category
TreemapLeaves(rs) ==
    {[category |-> rs[i].category,
      label |-> rs[i].sub_category,
      value |-> GroupSum(SelectSeq(rs, LAMBDA r : r.category = rs[i].category),
                         "sub_category", rs[i].sub_category, "value"),
      parent_value |-> ParentOfLeaf(rs, rs[i].category)] : i \in 1..Len(rs)}

WithShare(nodes) ==
    {[category |-> n.category, label |-> n.label, value |-> n.value,
      parent_value |-> n.parent_value,
      percent_parent |-> ShareTenths(n.value, n.parent_value)] : n \in nodes}

\* the figures; the treemap reads its three columns of df_products
Figures ==
    /\ dpc = "figures"
    /\ IF TreemapColumns \subseteq df_products.cols
       THEN /\ treemap' = WithShare(TreemapLeaves(df_products.rows))
            /\ dpc' = "indicators"
       ELSE /\ dpc' = "crash"
            /\ UNCHANGED treemap
    /\ UNCHANGED <<genvars, layoutvars, products_file, sales_file, df_products, df_sales, df_geo, kpi,
                   monthly_summary, written>>

----------------------------------------------------------------------------
(* create_dashboard: the KPI cards *)

DblOne == DblOf(1, 1)

\* the entries of indicators_data: the text-only one, then the KPI behind each number
IndicatorKeys ==
    << [text |-> "KPIs", title |-> ""],
       [title |-> "Net Revenue", key |-> "total_revenue"],
       [title |-> "Profit", key |-> "total_profit"],
       [title |-> "Discount", key |-> "total_discount"],
       [title |-> "Profit Margin %", key |-> "profit_margin"],
       [title |-> "Order Count", key |-> "total_order_count"],
       [title |-> "Order Value Avg", key |-> "avg_order_value"],
       [title |-> "Units (# of)", key |-> "total_units"],
       [title |-> "Qty", key |-> "num_products"] >>

\* indicators_data, with the values of the KPIs
IndicatorsData ==
    [i \in 1..Len(IndicatorKeys) |->
       IF "text" \in DOMAIN IndicatorKeys[i] THEN IndicatorKeys[i]
       ELSE [title |-> IndicatorKeys[i].title, value |-> kpi[IndicatorKeys[i].key]]]

num_cards == Len(IndicatorKeys)

\* the literals of the layout
StartLeft == DblOf(1, 100)
gap == DblOf(15, 1000)
AnnotationInset == DblOf(1, 100)
WideGap == DblOf(2, 100)

total_gap_space == DblMul(DblOfInt(num_cards - 1), gap)

\* (1.0 - x_start * 2 - total_gap_space) / num_cards
InitialCardWidth(x) ==
    DblDiv(DblSub(DblSub(DblOne, DblMul(x, DblOfInt(2))), total_gap_space),
           DblOfInt(num_cards))

FirstCardWidth == InitialCardWidth(StartLeft)

CardsLeft == dpc = "cards" /\ card_i < num_cards

\* no layout has been computed
LayoutIdle ==
    /\ x_start = DblZero
    /\ card_width = DblZero
    /\ card_i = 0
    /\ indicators = <<>>
    /\ all_annotations = <<>>

\* x_start = 0.01 ... all_annotations = []
CardSetup ==
    /\ dpc = "indicators"
    /\ x_start' = StartLeft
    /\ card_width' = FirstCardWidth
    /\ card_i' = 0
    /\ indicators' = <<>>
    /\ all_annotations' = <<>>
    /\ dpc' = "cards"
    /\ UNCHANGED <<genvars, products_file, sales_file, df_products, df_sales, df_geo, kpi,
                   monthly_summary, treemap, written>>

KeepWidth(x, w) == w

\* if x_start + card_width > 1.0: card_width = 1.0 - x_start
ClampWidth(x, w) == IF DblLt(DblOne, DblAdd(x, w)) THEN DblSub(DblOne, x) ELSE w

\* x_start after entry i: slots 1 and 2 are followed by 0.02 more
NextStart(x, w, i) ==
    IF i \in {1, 2} THEN DblAdd(x, DblAdd(DblAdd(w, gap), WideGap))
    ELSE DblAdd(x, DblAdd(w, gap))

\* one iteration of the positioning loop, on entry ind = indicators_data[i]
Card ==
    /\ CardsLeft
    /\ LET ind == IndicatorsData[card_i + 1]
           w == IF "text" \in DOMAIN ind THEN card_width ELSE ClampWidth(x_start, card_width)
       IN  /\ IF "text" \in DOMAIN ind
              THEN /\ all_annotations' =
                         Append(all_annotations,
                                [text |-> ind.text, x |-> DblAdd(x_start, AnnotationInset)])
                   /\ UNCHANGED indicators
              ELSE /\ indicators' =
                         Append(indicators,
                                [title |-> ind.title, value |-> ind.value,
                                 x |-> <<x_start, DblAdd(x_start, w)>>])
                   /\ UNCHANGED all_annotations
           /\ card_width' = w
           /\ x_start' = NextStart(x_start, w, card_i)
    /\ card_i' = card_i + 1
    /\ dpc' = IF card_i + 1 = num_cards THEN "write" ELSE "cards"
    /\ UNCHANGED <<genvars, products_file, sales_file, df_products, df_sales, df_geo, kpi,
                   monthly_summary, treemap, written>>

\* fig_combined.write_html(output_file_path)
WriteHtml ==
    /\ dpc = "write"
    /\ written' = TRUE
    /\ dpc' = "done"
    /\ UNCHANGED <<genvars, layoutvars, products_file, sales_file, df_products, df_sales, df_geo, kpi,
                   monthly_summary, treemap>>

----------------------------------------------------------------------------
(* specifications *)

GenInit ==
    /\ proc = 1
    /\ callno = 0
    /\ log = <<>>
    /\ files = NoFiles
    /\ product_ids = <<>>
    /\ categories = <<>>
    /\ subcategories = <<>>
    /\ values = <<>>
    /\ products_df = <<>>
    /\ selected_states = <<>>
    /\ month = 1
    /\ state_ix = 1
    /\ rows = <<>>
    /\ promo_percent = <<>>
    /\ sales_df = <<>>

\* create_dashboard is not running
DashIdle ==
    /\ dpc = "off"
    /\ products_file = Absent
    /\ sales_file = Absent
    /\ df_products = Absent
    /\ df_sales = Absent
    /\ df_geo = <<>>
    /\ kpi = NoKpi
    /\ monthly_summary = <<>>
    /\ treemap = {}
    /\ LayoutIdle
    /\ written = FALSE

DefaultArgs ==
    /\ num_products = 150
    /\ year = 2023
    /\ num_months = 12
    /\ num_states = 20

\* free outcomes, small arguments
Init ==
    /\ GenInit
    /\ DashIdle
    /\ pc = "idle"
    /\ rng = 0
    /\ \/ /\ script = "products"
          /\ num_products \in 0..MaxProducts
          /\ year = 2023 /\ num_months = 12 /\ num_states = 20
       \/ /\ script = "sales"
          /\ num_products = 150
          /\ year = 2023
          /\ num_months \in 0..MaxRows
          /\ num_states \in 0..MaxRows
          /\ num_months * num_states <= MaxRows

Next ==
    \/ CallOnce
    \/ GpIds \/ GpCatFree \/ GpCatsDone \/ GpValFree \/ GpReturn
    \/ GsChoiceFree \/ GsRowFree \/ GsRowsDone \/ GsPromoFree \/ GsReturn
    \/ Finish

Spec == Init /\ [][Next]_vars

\* seeded outcomes: the script, or one function, run again in the same and in a new process
SeedInit ==
    /\ GenInit
    /\ DashIdle
    /\ DashIdle
    /\ pc = "import"
    /\ rng \in EntropyStates
    /\ \/ script = "main" /\ DefaultArgs
       \/ /\ script = "products"
          /\ num_products \in 0..MaxProducts
          /\ year = 2023 /\ num_months = 12 /\ num_states = 20
       \/ /\ script = "sales"
          /\ num_products = 150
          /\ year = 2023
          /\ num_months \in 1..MaxRows
          /\ num_states \in 1..MaxRows

SeedNext ==
    \/ Import \/ CallAgain \/ ExitAny
    \/ GpIds \/ GpCatRng \/ GpCatsDone \/ GpValRng \/ GpReturn
    \/ GsChoiceRng \/ GsRowRng \/ GsRowsDone \/ GsPromoRng \/ GsReturn
    \/ MainSales \/ MainSave \/ Finish

SpecSeed == SeedInit /\ [][SeedNext]_vars

\* seeded outcomes, one call with arguments large enough for the padding and the cut
CountInit ==
    /\ GenInit
    /\ DashIdle
    /\ DashIdle
    /\ pc = "import"
    /\ rng \in EntropyStates
    /\ \/ /\ script = "products"
          /\ num_products \in {0, 1, 999, 1000, BigProducts}
          /\ year = 2023 /\ num_months = 12 /\ num_states = 20
       \/ /\ script = "sales"
          /\ num_products = 150
          /\ year = 2023
          /\ num_months \in {1, 2, BigMonths}
          /\ num_states \in {1, 8, 9, 20, 50}

CountNext ==
    \/ Import \/ CallOnce
    \/ GpIds \/ GpCatRng \/ GpCatsDone \/ GpValRng \/ GpReturn
    \/ GsChoiceRng \/ GsRowRng \/ GsRowsDone \/ GsPromoRng \/ GsReturn
    \/ Finish

SpecCounts == CountInit /\ [][CountNext]_vars

\* the dashboard, on every pair of files
DashInit ==
    /\ GenInit
    /\ DefaultArgs
    /\ pc = "idle"
    /\ rng = 0
    /\ script = "main"
    /\ dpc = "load_products"
    /\ \/ /\ products_file \in {Absent} \cup ProductTables
          /\ sales_file \in {Absent, MalformedSales, OneSalesTable}
       \/ /\ products_file = OneProductTable
          /\ sales_file \in {Absent, MalformedSales} \cup SalesTables
    /\ df_products = Absent
    /\ df_sales = Absent
    /\ df_geo = <<>>
    /\ kpi = NoKpi
    /\ monthly_summary = <<>>
    /\ treemap = {}
    /\ LayoutIdle
    /\ written = FALSE

DashNext ==
    LoadProducts \/ LoadSales \/ Geo \/ Kpis \/ Bar \/ Figures \/ CardSetup \/ Card \/ WriteHtml

SpecDash == DashInit /\ [][DashNext]_vars

----------------------------------------------------------------------------
(* properties of the generator *)

Abs(x) == IF x < 0 THEN 0 - x ELSE x

DigitValue(ch) == CHOOSE k \in 0..9 : DigitChars[k + 1] = ch

\* int(s) of a string of decimal digits
RECURSIVE ParseInt(_)
ParseInt(s) ==
    IF Len(s) = 0 THEN 0
    ELSE 10 * ParseInt(SubSeq(s, 1, Len(s) - 1)) + DigitValue(s[Len(s)])

\* C3: every row that generate_product_data builds or returns has its category among
\* the five keys of PRODUCT_CATEGORIES and its sub-category in that category's list
C3_SubcategoryInCategory ==
    /\ \A i \in 1..Len(subcategories) :
         /\ categories[i] \in DOMAIN PRODUCT_CATEGORIES
         /\ subcategories[i] \in SeqToSet(PRODUCT_CATEGORIES[categories[i]])
    /\ \A i \in 1..Len(products_df) :
         /\ products_df[i].category \in SeqToSet(CategoryKeys)
         /\ products_df[i].sub_category \in SeqToSet(PRODUCT_CATEGORIES[products_df[i].category])
    /\ Cardinality(DOMAIN PRODUCT_CATEGORIES) = 5

C3_Witness ==
    /\ pc = "gp_ret"
    /\ Len(products_df) = 2
    /\ products_df[1].category = "Sports"
    /\ products_df[1].sub_category = "Yoga Mats"
    /\ products_df[2].category = "Clothing"

\* C4: in every row generate_sales_summary returns, percentage_promo is in 0.20..0.60
\* and percentage_promo + percentage_non_promo is 1 (hundredths: 100)
C4_PromoSplitSumsToOne ==
    \A i \in 1..Len(sales_df) :
        /\ sales_df[i].percentage_promo \in 20..60
        /\ sales_df[i].percentage_promo + sales_df[i].percentage_non_promo = 100

C4_Witness ==
    /\ pc = "gs_ret"
    /\ Len(sales_df) = 2
    /\ sales_df[1].percentage_promo = 36
    /\ sales_df[2].percentage_promo = 60

\* C5: in every row generate_sales_summary returns, profit_margin is in 0.10..0.40, so
\* 1 - profit_margin is not zero, and total_sales is within half a cent of
\* total_cost / (1 - profit_margin) taken on the row's rounded cost and margin
C5_SalesFromCostAndMargin ==
    \A i \in 1..Len(sales_df) :
        LET r == sales_df[i]
            d == 100 - r.profit_margin
        IN  /\ r.profit_margin \in 10..40
            /\ d > 0
            /\ 2 * Abs(r.total_sales * d - 100 * r.total_cost) <= d

C5_Witness ==
    /\ pc = "gs_ret"
    /\ \E i \in 1..Len(sales_df) :
         /\ sales_df[i].profit_margin = 26
         /\ sales_df[i].total_sales * 74 # 100 * sales_df[i].total_cost
         /\ sales_df[i].total_cost > 0

\* C8 as amended: the k-th call after the seeding import returns the same tables in
\* every process, and a process that has run main once leaves the two files that the
\* first run left
C8_SameSeedSameTables ==
    /\ \A i, j \in 1..Len(log) :
         log[i].call = log[j].call =>
            /\ log[i].products = log[j].products
            /\ log[i].sales = log[j].sales
    /\ (script = "main" /\ pc = "idle" /\ callno = 1) =>
          /\ files.saved
          /\ files.products = log[1].products
          /\ files.sales = log[1].sales

C8_Witness ==
    /\ script = "main"
    /\ pc = "idle"
    /\ \E i, j \in 1..Len(log) :
         /\ log[i].proc = 1 /\ log[j].proc = 2
         /\ log[i].call = 1 /\ log[j].call = 1
         /\ Len(log[j].products) = 150
         /\ Len(log[j].sales) = 100

\* C8 as stated: any two calls made with the same arguments return the same tables,
\* also two calls in one process
C8_AnyTwoCallsSameTables ==
    \A i, j \in 1..Len(log) :
        /\ log[i].products = log[j].products
        /\ log[i].sales = log[j].sales

IdsUniqueSequential(ids, n) ==
    /\ Len(ids) = n
    /\ \A i \in 1..Len(ids) :
         /\ Len(ids[i]) >= 4
         /\ ids[i][1] = "P"
         /\ \A k \in 2..Len(ids[i]) : ids[i][k] \in SeqToSet(DigitChars)
         /\ ParseInt(SubSeq(ids[i], 2, Len(ids[i]))) = i
    /\ Cardinality({ids[i] : i \in 1..Len(ids)}) = n

\* C9: the identifiers generate_product_data builds, and the rows it returns, are
\* num_products many; the identifier of row i is 'P' followed by at least three digits
\* that read i, and no two rows share one
C9_ProductIdsUniqueSequential ==
    /\ (pc = "gp_cats" /\ categories = <<>>) => IdsUniqueSequential(product_ids, num_products)
    /\ pc = "gp_ret" =>
          IdsUniqueSequential([i \in 1..Len(products_df) |-> products_df[i].product_id],
                              num_products)

C9_Witness ==
    /\ pc = "gp_cats"
    /\ num_products > 1000
    /\ Len(product_ids[1000]) = 5
    /\ Len(product_ids[999]) = 4
    /\ product_ids[7] = <<"P", "0", "0", "7">>

\* C10 as stated: generate_sales_summary returns exactly 100 rows
C10_Exactly100Rows ==
    (pc = "gs_ret" /\ num_months >= 1 /\ num_states \in 1..50) => Len(sales_df) = 100

----------------------------------------------------------------------------
(* properties of the dashboard *)

\* the table create_dashboard must hold for a file: the file's, or the sample rows
ExpectedProducts == IF products_file.present THEN products_file ELSE SampleProducts
ExpectedSales == IF sales_file.present THEN sales_file ELSE SampleSales

\* the columns the step at location l reads, and of which table
SalesColumnsReadAt(l) ==
    CASE l = "geo" -> GeoColumns
      [] l = "kpi" -> KpiColumns
      [] l = "bar" -> BarColumns
      [] OTHER -> {}

FilesWellFormed ==
    /\ products_file.present => ProductColumns \subseteq products_file.cols
    /\ sales_file.present => SalesColumns \subseteq sales_file.cols

\* C1: for present or absent products.csv and sales_summary.csv, the table in use is the
\* sample rows exactly where the file is absent and the file's rows where it is present;
\* no step reads a column its table lacks and no step fails, and the page is written
\* exactly when the last step is done
C1_MissingFileFallsBack ==
    /\ dpc # "load_products" => df_products = ExpectedProducts
    /\ dpc \notin {"load_products", "load_sales"} =>
          /\ Len(df_sales.rows) = Len(ExpectedSales.rows)
          /\ ExpectedSales.cols \subseteq df_sales.cols
          /\ df_sales.cols \subseteq ExpectedSales.cols \cup {"order_count_est"}
          /\ \A i \in 1..Len(df_sales.rows) : \A c \in ExpectedSales.cols :
                df_sales.rows[i][c] = ExpectedSales.rows[i][c]
    /\ FilesWellFormed =>
          /\ dpc # "crash"
          /\ SalesColumnsReadAt(dpc) \subseteq df_sales.cols
          /\ dpc = "figures" => TreemapColumns \subseteq df_products.cols
    /\ dpc = "done" <=> written

C1_Witness ==
    /\ ~products_file.present
    /\ ~sales_file.present
    /\ dpc = "done"
    /\ written
    /\ Len(df_sales.rows) = 10
    /\ Len(df_geo) = 10
    /\ Len(monthly_summary) = 10
    /\ Cardinality(treemap) = 8

PastKpis == dpc \in {"bar", "figures", "indicators", "cards", "write", "done"}

\* C2 as amended: zero totals are handled; with summed total_sales zero profit_margin is
\* 0, with a summed order count of zero avg_order_value is 0, the run goes on and the
\* page is written; only a table that lacks a column makes a step fail
C2_ZeroTotalsHandled ==
    /\ PastKpis =>
          /\ kpi.total_revenue = SumSeq(Col(df_sales.rows, "total_sales"))
          /\ kpi.total_revenue = 0 => kpi.profit_margin = Num(0)
          /\ kpi.total_order_count = Num(0) => kpi.avg_order_value = Num(0)
          /\ kpi.total_revenue # 0 =>
                kpi.profit_margin = Num((kpi.total_profit * 1000) \div kpi.total_revenue)
    /\ dpc = "crash" => ~FilesWellFormed
    /\ dpc = "done" => written

C2_Witness ==
    /\ dpc = "done"
    /\ written
    /\ sales_file.present
    /\ Len(df_sales.rows) = 2
    /\ kpi.total_revenue = 0
    /\ kpi.total_order_count = Num(0)
    /\ kpi.profit_margin = Num(0)
    /\ kpi.avg_order_value = Num(0)

\* C2 as stated: a sales table whose summed total_sales, or summed order count, is zero
\* ends the run in a fatal error at the KPIs, and no dashboard is written
C2_ZeroTotalsFatal ==
    (PastKpis \/ written) => (kpi.total_revenue # 0 /\ kpi.total_order_count # Num(0))

CategoryTotal(c) ==
    SumSeq([i \in 1..Len(df_products.rows) |->
              IF df_products.rows[i].category = c THEN df_products.rows[i].value ELSE 0])
SubcategoryTotal(c, l) ==
    SumSeq([i \in 1..Len(df_products.rows) |->
              IF df_products.rows[i].category = c /\ df_products.rows[i].sub_category = l
              THEN df_products.rows[i].value ELSE 0])

RECURSIVE SumOfValues(_)
SumOfValues(nodes) ==
    IF nodes = {} THEN 0
    ELSE LET n == CHOOSE x \in nodes : TRUE
         IN  n.value + SumOfValues(nodes \ {n})

\* C7: the treemap has one leaf per (category, sub_category); its value is the
\* sub-category's total, its share is that total over the category's total, shown to a
\* tenth of a percent; the leaves of a category add up to the category (shares: 100%);
\* on the sample rows Laptops is 1500 of 2700, shown as 55.6%
C7_TreemapShareOfParent ==
    dpc \in {"indicators", "cards", "write", "done"} =>
       /\ Cardinality(treemap) =
             Cardinality({<<df_products.rows[i].category, df_products.rows[i].sub_category>> :
                            i \in 1..Len(df_products.rows)})
       /\ \A n \in treemap :
             /\ n.value = SubcategoryTotal(n.category, n.label)
             /\ n.parent_value = CategoryTotal(n.category)
             /\ n.parent_value > 0
             /\ n.percent_parent \in 0..1000
             /\ 2 * Abs(n.percent_parent * n.parent_value - 1000 * n.value) <= n.parent_value
             /\ SumOfValues({x \in treemap : x.category = n.category}) = n.parent_value
       /\ ~products_file.present =>
             [category |-> "Electronics", label |-> "Laptops", value |-> 1500,
              parent_value |-> 2700, percent_parent |-> 556] \in treemap

C7_Witness ==
    /\ dpc = "done"
    /\ ~products_file.present
    /\ \E n \in treemap : n.label = "Laptops" /\ n.percent_parent = 556
    /\ \E n \in treemap : n.label = "Smartphones" /\ n.percent_parent = 444

----------------------------------------------------------------------------
(* properties of the KPI card layout *)

\* 2^-50: far below any length of the layout, above the rounding of a few additions
RoundingSlack == [s |-> 1, m |-> BnShl(<<1>>, MantissaBits - 1), e |-> 0 - 102]

\* 0.02, where the text-only 'KPIs' annotation is
AnnotationAt == DblOf(2, 100)

LayoutStarted == dpc \in {"cards", "write", "done"}

\* every card lies in [0, 1], has positive width, and is to the right of the annotation
CardsInUnitInterval ==
    /\ \A k \in 1..Len(indicators) :
          /\ DblLe(DblZero, indicators[k].x[1])
          /\ DblLt(indicators[k].x[1], indicators[k].x[2])
          /\ DblLe(indicators[k].x[2], DblOne)
          /\ \A a \in 1..Len(all_annotations) :
                DblLt(all_annotations[a].x, indicators[k].x[1])
    /\ \A a \in 1..Len(all_annotations) : all_annotations[a].x = AnnotationAt
    /\ LayoutStarted => DblLt(DblZero, card_width)
    /\ dpc \in {"write", "done"} => Len(indicators) = num_cards - 1 /\ Len(all_annotations) = 1

\* the cards are in list order from left to right, and no two overlap
CardsOrderedDisjoint ==
    \A j, k \in 1..Len(indicators) : j < k => DblLt(indicators[j].x[2], indicators[k].x[1])

\* C11 as amended: every numeric KPI card has 0 <= x0 < x1 <= 1.0; the cards are ordered
\* left to right in list order and pairwise disjoint, each starting to the right of the
\* previous card's right edge by the gap up to floating-point rounding (it may fall short
\* of right edge + gap by less than 2^-50); every card is to the right of the annotation
\* at x = 0.02; x_start never decreases and card_width stays positive, clamp included
C11_CardsDisjointUpToRounding ==
    /\ [](/\ CardsInUnitInterval
          /\ CardsOrderedDisjoint
          /\ \A k \in 1..(Len(indicators) - 1) :
                DblLe(DblSub(DblAdd(indicators[k].x[2], gap), RoundingSlack),
                      indicators[k + 1].x[1]))
    /\ [][DblLe(x_start, x_start')]_vars

\* the loop is over: eight cards, the last one clamped to end at 1.0, and the sixth
\* starting short of the fifth's right edge plus the gap
C11_Witness ==
    /\ dpc = "done"
    /\ Len(indicators) = 8
    /\ indicators[8].x[2] = DblOne
    /\ card_width = DblSub(DblOne, indicators[8].x[1])
    /\ DblLt(card_width, FirstCardWidth)
    /\ DblLt(DblOne, x_start)
    /\ DblLt(indicators[6].x[1], DblAdd(indicators[5].x[2], gap))
    /\ DblLt(indicators[5].x[2], indicators[6].x[1])

\* C11 as stated: as above, with each card starting at or after the previous card's
\* right edge plus the gap
C11_CardsAtLeastGapApart ==
    /\ CardsInUnitInterval
    /\ CardsOrderedDisjoint
    /\ \A k \in 1..(Len(indicators) - 1) :
          DblLe(DblAdd(indicators[k].x[2], gap), indicators[k + 1].x[1])

----------------------------------------------------------------------------
(* properties of the monthly promo summary *)

BarDone == dpc \in {"figures", "indicators", "cards", "write", "done"}

\* every row has total_sales > 0 and 0 <= percentage_promo <= 1
ValidPromoRows ==
    \A i \in 1..Len(df_sales.rows) :
       df_sales.rows[i].total_sales > 0 /\ df_sales.rows[i].percentage_promo \in 0..100

\* the percentage_promo cells (hundredths) of the rows of a (year, month)
PromosOf(y, m) ==
    {df_sales.rows[i].percentage_promo :
        i \in {j \in 1..Len(df_sales.rows) :
                 df_sales.rows[j].year = y /\ df_sales.rows[j].month = m}}

MinOf(S) == CHOOSE x \in S : \A y \in S : x <= y
MaxOf(S) == CHOOSE x \in S : \A y \in S : y <= x

IsFloat(f) == "m" \in DOMAIN f

\* monthly_summary has one row per (year, month) of the sales table, and the same total
OneRowPerMonth ==
    /\ {<<monthly_summary[g].year, monthly_summary[g].month>> : g \in 1..Len(monthly_summary)}
          = {<<df_sales.rows[i].year, df_sales.rows[i].month>> : i \in 1..Len(df_sales.rows)}
    /\ \A g, h \in 1..Len(monthly_summary) :
          g # h => <<monthly_summary[g].year, monthly_summary[g].month>>
                      # <<monthly_summary[h].year, monthly_summary[h].month>>
    /\ SumSeq(Col(monthly_summary, "total_sales")) = SumSeq(Col(df_sales.rows, "total_sales"))

\* C12 as amended: for a sales table whose rows all have total_sales > 0 and
\* 0 <= percentage_promo <= 1, each month's promo_percentage is a number in [0, 1] and
\* lies between the smallest and the largest percentage_promo of the month's rows up to
\* floating-point rounding (a relative 2^-50); monthly_summary has exactly one row per
\* (year, month) and its total_sales add up to those of the sales table
C12_PromoShareWithinGroupUpToRounding ==
    BarDone =>
       /\ OneRowPerMonth
       /\ ValidPromoRows =>
             \A g \in 1..Len(monthly_summary) :
                LET share == monthly_summary[g].promo_percentage
                    promos == PromosOf(monthly_summary[g].year, monthly_summary[g].month)
                IN  /\ IsFloat(share)
                    /\ DblLe(DblZero, share)
                    /\ DblLe(share, DblOne)
                    /\ DblLe(DblMul(PercentFloat[MinOf(promos)], DblSub(DblOne, RoundingSlack)),
                             share)
                    /\ DblLe(share,
                             DblMul(PercentFloat[MaxOf(promos)], DblAdd(DblOne, RoundingSlack)))

\* a month with two rows of different promo shares: its share is strictly in between
C12_Witness ==
    /\ dpc = "done"
    /\ sales_file.present
    /\ ValidPromoRows
    /\ Len(df_sales.rows) = 2
    /\ Len(monthly_summary) = 1
    /\ PromosOf(monthly_summary[1].year, monthly_summary[1].month) = {20, 60}
    /\ monthly_summary[1].total_sales = 350
    /\ DblLt(PercentFloat[20], monthly_summary[1].promo_percentage)
    /\ DblLt(monthly_summary[1].promo_percentage, PercentFloat[60])

\* C12 as stated: the month's promo_percentage lies between the smallest and the largest
\* percentage_promo of the month's rows
C12_PromoShareWithinGroup ==
    (BarDone /\ ValidPromoRows) =>
       /\ OneRowPerMonth
       /\ \A g \in 1..Len(monthly_summary) :
             LET share == monthly_summary[g].promo_percentage
                 promos == PromosOf(monthly_summary[g].year, monthly_summary[g].month)
             IN  /\ IsFloat(share)
                 /\ DblLe(PercentFloat[MinOf(promos)], share)
                 /\ DblLe(share, PercentFloat[MaxOf(promos)])

============================================================================
